---- MODULE Spec2Model ----
(***************************************************************************)
(* The chat/message persistence and ownership model of ollama-chat: the    *)
(* Node routes of src/api/server.js and the PHP controllers of             *)
(* src/backend/api.php over the relations users, chats and messages.       *)
(* Every SQL statement a handler executes is one step: a handler that      *)
(* executes several statements (there is no transaction anywhere in the    *)
(* code) may be interleaved with the statements of other requests.         *)
(***************************************************************************)
EXTENDS Integers, Sequences, FiniteSets, TLC

VARIABLES
    users,      \* the users relation: a set of rows
    nextUserId, \* AUTO_INCREMENT of users.id
    schema,     \* whose DDL created the users relation: "node" or "php"
    chats,      \* the chats relation: chat id -> row, for the ids that exist
    messages,   \* the messages relation: a set of rows
    nextMsgId,  \* AUTO_INCREMENT of messages.id
    now,        \* the store's clock, CURRENT_TIMESTAMP
    req,        \* the request each connection is in the middle of
    last        \* the statement just executed and the response it sent, if any

vars == <<users, nextUserId, schema, chats, messages, nextMsgId, now, req, last>>

(***************************************************************************)
(* Bounds of the model.                                                    *)
(***************************************************************************)
MaxTime == 1
MaxMsgId == 2
MaxUserId == 3
MaxSync == 1
MaxTranscript == 2

Procs == {1, 2}
UserIds == {1, 2}
ChatIds == {"c1"}
NameInputs == {"", "n1", "n2"}
ModelInputs == {"", "m1"}
ContentInputs == {"", "a", "b"}
\* <<name, model>> of POST /api/chats and <<sender, content>> of POST .../messages
CreateInputs == {<<"", "m1">>, <<"n1", "">>, <<"n1", "m1">>, <<"n2", "m1">>}
AppendInputs == {<<"", "a">>, <<"user", "">>, <<"bot", "a">>, <<"user", "a">>,
                 <<"user", "b">>}
NULL == "NULL"

(***************************************************************************)
(* The schema: enumerated column domains.                                  *)
(***************************************************************************)
SenderEnum == {"user", "ai"}
ThemeEnum == {"light", "dark"}

(***************************************************************************)
(* Requests in flight and responses.                                       *)
(***************************************************************************)
NoRow == [user_id |-> 0, name |-> "", model |-> "", updated_at |-> 0]
Idle == [op |-> "idle", pc |-> "", user |-> 0, chat |-> "", sender |-> "",
         content |-> "", row |-> NoRow, todo |-> <<>>, done |-> <<>>,
         username |-> "", email |-> "", changed |-> FALSE]
\* `changed` records that a statement of the request has changed the store.

\* What a step leaves in `last`: status 0 is a statement after which the handler
\* continues, any other status is the response sent.
Ev(op, stmt, user, chat, status, error) ==
    [op |-> op, stmt |-> stmt, user |-> user, chat |-> chat, status |-> status,
     error |-> error, row |-> NoRow, messages |-> <<>>, chats |-> <<>>,
     sender |-> "", content |-> "", username |-> "", email |-> "", theme |-> ""]

AppendEv(stmt, user, chat, sender, content, status, error) ==
    [Ev("append", stmt, user, chat, status, error)
        EXCEPT !.sender = sender, !.content = content]

\* Nothing to observe.
Quiet == Ev("", "", 0, "", 0, "")

NotFound == "Chat not found"
Internal == "Internal server error"

(***************************************************************************)
(* Queries.                                                                *)
(***************************************************************************)
\* SELECT ... FROM chats WHERE id = ? AND user_id = ?
OwnedNoCheck(c, u) == c \in DOMAIN chats
Owned(c, u) == c \in DOMAIN chats /\ chats[c].user_id = u

MessagesIn(rows, c) == {m \in rows : m.chat_id = c}
MessagesOf(c) == MessagesIn(messages, c)

\* SELECT ... FROM messages WHERE chat_id = ? ORDER BY timestamp ASC: the rows in
\* any order that is ascending in timestamp; rows of equal timestamp come in an
\* order the statement does not fix.
OrderedAsc(S) ==
    {s \in [1..Cardinality(S) -> S] :
        /\ \A i, j \in 1..Cardinality(S) : i # j => s[i] # s[j]
        /\ \A i, j \in 1..Cardinality(S) : i < j => s[i].timestamp <= s[j].timestamp}

\* (SELECT content FROM messages WHERE chat_id = c.id ORDER BY timestamp DESC LIMIT 1):
\* the content of a row of greatest timestamp, NULL when the chat has no message.
LastMessage(c) ==
    IF MessagesOf(c) = {} THEN {NULL}
    ELSE {m.content : m \in {x \in MessagesOf(c) :
                                \A y \in MessagesOf(c) : y.timestamp <= x.timestamp}}

\* SELECT c.*, (last_message) FROM chats c WHERE c.user_id = ? ORDER BY c.updated_at DESC
ChatsOfUser(u) == {c \in DOMAIN chats : chats[c].user_id = u}

Summary(c, lm) ==
    [id |-> c, name |-> chats[c].name, model |-> chats[c].model,
     updated_at |-> chats[c].updated_at, last_message |-> lm]

ListForUser(u) ==
    LET ids == ChatsOfUser(u)
        n == Cardinality(ids)
        orders == {o \in [1..n -> ids] :
                      /\ \A i, j \in 1..n : i # j => o[i] # o[j]
                      /\ \A i, j \in 1..n :
                            i < j => chats[o[i]].updated_at >= chats[o[j]].updated_at}
        picks == {f \in [ids -> ContentInputs \cup {NULL}] :
                      \A c \in ids : f[c] \in LastMessage(c)}
    IN {[i \in 1..n |-> Summary(o[i], f[o[i]])] : o \in orders, f \in picks}

(***************************************************************************)
(* Statements that write.                                                  *)
(***************************************************************************)
\* DELETE FROM chats WHERE id = ?, with messages.chat_id ... ON DELETE CASCADE
CascadeNone(c) == messages
Cascade(c) == {m \in messages : m.chat_id # c}

DeleteChatRow(c) ==
    /\ chats' = [x \in DOMAIN chats \ {c} |-> chats[x]]
    /\ messages' = Cascade(c)

\* INSERT INTO messages: the row is refused when chat_id references no chat
\* (FOREIGN KEY) or sender is outside the ENUM (strict SQL mode, the default).
InsertableNoFk(c, sender) == sender \in SenderEnum
Insertable(c, sender) == c \in DOMAIN chats /\ sender \in SenderEnum

MessageRowNoModel(c, sender, content, model, info, ts) ==
    [id |-> nextMsgId, chat_id |-> c, sender |-> sender, content |-> content,
     model |-> NULL, response_info |-> info, timestamp |-> ts]
MessageRow(c, sender, content, model, info, ts) ==
    [id |-> nextMsgId, chat_id |-> c, sender |-> sender, content |-> content,
     model |-> model, response_info |-> info, timestamp |-> ts]

\* A request is served on the first connection that is free.
Free(p) == req[p].op = "idle" /\ \A q \in Procs : q < p => req[q].op # "idle"

(***************************************************************************)
(* The initial state of the chat store: the store after init.sql with a    *)
(* second user registered, no chat and no request.                         *)
(***************************************************************************)
UserRow(id, username, email, theme) ==
    [id |-> id, username |-> username, email |-> email, theme |-> theme]

DemoUser == UserRow(1, "demo", "demo@example.com", "light")

Init ==
    /\ users = {DemoUser, UserRow(2, "bob", "bob@example.com", "light")}
    /\ nextUserId = 3
    /\ schema = "node"
    /\ chats = <<>>
    /\ messages = {}
    /\ nextMsgId = 1
    /\ now = 0
    /\ req = [p \in Procs |-> Idle]
    /\ last = Quiet

authVars == <<users, nextUserId, schema>>
storeVars == <<chats, messages, nextMsgId>>

(***************************************************************************)
(* `last` is an observation, not program state: once the statement's       *)
(* outcome has been looked at it is forgotten, and only then is the next   *)
(* statement of any request executed.  Every interleaving of statements    *)
(* remains possible.                                                       *)
(***************************************************************************)
Observed == last = Quiet

Sent ==
    /\ last # Quiet
    /\ last' = Quiet
    /\ UNCHANGED <<authVars, storeVars, now, req>>

(***************************************************************************)
(* The clock.                                                              *)
(***************************************************************************)
Tick ==
    /\ Observed
    /\ now < MaxTime
    /\ now' = now + 1
    /\ UNCHANGED <<authVars, storeVars, req, last>>

(***************************************************************************)
(* Node: GET /api/chats                                                    *)
(***************************************************************************)
NodeList(u) ==
    /\ Observed
    /\ \E s \in ListForUser(u) :
          last' = [Ev("list", "select", u, "", 200, "") EXCEPT !.chats = s]
    /\ UNCHANGED <<authVars, storeVars, now, req>>

(***************************************************************************)
(* Node: GET /api/chats/:chatId                                            *)
(***************************************************************************)
NodeGetChat(p, u, c) ==
    /\ Observed
    /\ Free(p)
    /\ IF Owned(c, u)
       THEN /\ req' = [req EXCEPT ![p] = [Idle EXCEPT !.op = "get", !.pc = "messages",
                                             !.user = u, !.chat = c, !.row = chats[c]]]
            /\ last' = Ev("get", "chat", u, c, 0, "")
       ELSE /\ last' = Ev("get", "chat", u, c, 404, NotFound)
            /\ UNCHANGED req
    /\ UNCHANGED <<authVars, storeVars, now>>

NodeGetMessages(p) ==
    /\ Observed
    /\ req[p].op = "get" /\ req[p].pc = "messages"
    /\ \E s \in OrderedAsc(MessagesOf(req[p].chat)) :
          last' = [Ev("get", "messages", req[p].user, req[p].chat, 200, "")
                      EXCEPT !.row = req[p].row, !.messages = s]
    /\ req' = [req EXCEPT ![p] = Idle]
    /\ UNCHANGED <<authVars, storeVars, now>>

(***************************************************************************)
(* Node: POST /api/chats                                                   *)
(***************************************************************************)
NodeCreate(u, c, name, model) ==
    /\ Observed
    /\ IF name = "" \/ model = ""
       THEN /\ last' = Ev("create", "", u, c, 400, "Chat ID, name, and model are required")
            /\ UNCHANGED chats
       ELSE IF c \in DOMAIN chats
       THEN \* ER_DUP_ENTRY on the primary key, caught by the handler's catch
            /\ last' = Ev("create", "insert", u, c, 500, Internal)
            /\ UNCHANGED chats
       ELSE /\ chats' = chats @@ (c :> [user_id |-> u, name |-> name, model |-> model,
                                         updated_at |-> now])
            /\ last' = Ev("create", "insert", u, c, 201, "")
    /\ UNCHANGED <<authVars, messages, nextMsgId, now, req>>

(***************************************************************************)
(* Node: PATCH /api/chats/:chatId                                          *)
(***************************************************************************)
NodeRename(u, c, name) ==
    /\ Observed
    /\ IF name = ""
       THEN /\ last' = Ev("rename", "", u, c, 400, "Chat name is required")
            /\ UNCHANGED chats
       ELSE IF Owned(c, u)
       THEN \* updated_at ... ON UPDATE CURRENT_TIMESTAMP: set when the row changes
            /\ chats' = [chats EXCEPT ![c] =
                            IF @.name = name THEN @
                            ELSE [@ EXCEPT !.name = name, !.updated_at = now]]
            /\ last' = Ev("rename", "update", u, c, 200, "")
       ELSE /\ last' = Ev("rename", "update", u, c, 404, NotFound)
            /\ UNCHANGED chats
    /\ UNCHANGED <<authVars, messages, nextMsgId, now, req>>

(***************************************************************************)
(* Node: DELETE /api/chats/:chatId                                         *)
(***************************************************************************)
NodeDelete(u, c) ==
    /\ Observed
    /\ IF Owned(c, u)
       THEN /\ DeleteChatRow(c)
            /\ last' = Ev("delete", "delete", u, c, 200, "")
       ELSE /\ last' = Ev("delete", "delete", u, c, 404, NotFound)
            /\ UNCHANGED <<chats, messages>>
    /\ UNCHANGED <<authVars, nextMsgId, now, req>>

(***************************************************************************)
(* Node: POST /api/chats/:chatId/messages                                  *)
(***************************************************************************)
NodeAppend(p, u, c, sender, content) ==
    /\ Observed
    /\ Free(p)
    /\ IF sender = "" \/ content = ""
       THEN /\ last' = AppendEv("", u, c, sender, content, 400,
                                "Sender and content are required")
            /\ UNCHANGED req
       ELSE IF Owned(c, u)
       THEN /\ req' = [req EXCEPT ![p] = [Idle EXCEPT !.op = "append", !.pc = "insert",
                                             !.user = u, !.chat = c, !.sender = sender,
                                             !.content = content]]
            /\ last' = AppendEv("select", u, c, sender, content, 0, "")
       ELSE /\ last' = AppendEv("select", u, c, sender, content, 404, NotFound)
            /\ UNCHANGED req
    /\ UNCHANGED <<authVars, storeVars, now>>

NodeAppendInsert(p) ==
    /\ Observed
    /\ req[p].op = "append" /\ req[p].pc = "insert"
    /\ IF Insertable(req[p].chat, req[p].sender)
       THEN /\ nextMsgId <= MaxMsgId
            /\ messages' = messages \cup
                  {MessageRow(req[p].chat, req[p].sender, req[p].content, NULL, NULL, now)}
            /\ nextMsgId' = nextMsgId + 1
            /\ req' = [req EXCEPT ![p].pc = "update", ![p].changed = TRUE]
            /\ last' = AppendEv("insert", req[p].user, req[p].chat, req[p].sender,
                                req[p].content, 0, "")
       ELSE /\ req' = [req EXCEPT ![p] = Idle]
            /\ last' = AppendEv("insert", req[p].user, req[p].chat, req[p].sender,
                                req[p].content, 500, Internal)
            /\ UNCHANGED <<messages, nextMsgId>>
    /\ UNCHANGED <<authVars, chats, now>>

\* UPDATE chats SET updated_at = CURRENT_TIMESTAMP WHERE id = ?
NodeAppendUpdate(p) ==
    /\ Observed
    /\ req[p].op = "append" /\ req[p].pc = "update"
    /\ chats' = IF req[p].chat \in DOMAIN chats
                THEN [chats EXCEPT ![req[p].chat].updated_at = now]
                ELSE chats
    /\ req' = [req EXCEPT ![p] = Idle]
    /\ last' = AppendEv("update", req[p].user, req[p].chat, req[p].sender,
                       req[p].content, 201, "")
    /\ UNCHANGED <<authVars, messages, nextMsgId, now>>

(***************************************************************************)
(* PHP: ChatController::getUserChats                                       *)
(***************************************************************************)
PhpSummary(row) ==
    [id |-> row.id, user_id |-> chats[row.id].user_id, name |-> row.name,
     model |-> row.model, updated_at |-> row.updated_at,
     last_message |-> row.last_message, messages |-> <<>>]

PhpGetUserChats(p, u) ==
    /\ Observed
    /\ Free(p)
    /\ \E s \in ListForUser(u) :
          IF s = <<>>
          THEN /\ last' = Ev("getUserChats", "chats", u, "", 200, "")
               /\ UNCHANGED req
          ELSE /\ req' = [req EXCEPT ![p] =
                            [Idle EXCEPT !.op = "getUserChats", !.pc = "messages",
                                         !.user = u,
                                         !.todo = [i \in 1..Len(s) |-> PhpSummary(s[i])]]]
               /\ last' = Ev("getUserChats", "chats", u, "", 0, "")
    /\ UNCHANGED <<authVars, storeVars, now>>

\* foreach ($chats as &$chat): the messages of the next chat of the list
PhpGetUserChatsMessages(p) ==
    /\ Observed
    /\ req[p].op = "getUserChats" /\ req[p].pc = "messages"
    /\ LET chat == Head(req[p].todo)
       IN \E s \in OrderedAsc(MessagesOf(chat.id)) :
             LET done == Append(req[p].done, [chat EXCEPT !.messages = s])
             IN IF Len(req[p].todo) > 1
                THEN /\ req' = [req EXCEPT ![p].todo = Tail(@), ![p].done = done]
                     /\ last' = Ev("getUserChats", "messages", req[p].user, chat.id, 0, "")
                ELSE /\ req' = [req EXCEPT ![p] = Idle]
                     /\ last' = [Ev("getUserChats", "messages", req[p].user, chat.id,
                                    200, "") EXCEPT !.chats = done]
    /\ UNCHANGED <<authVars, storeVars, now>>

(***************************************************************************)
(* PHP: ChatController::saveChat                                           *)
(***************************************************************************)
\* The client writes its times to the half second; a TIMESTAMP column keeps whole
\* seconds and rounds what it is given.
ClientSeconds == {2 * t : t \in 0..MaxTime}
ToTimestamp(h) == (h + 1) \div 2

\* $message: sender, content, model ?? null, responseInfo ?? null, timestamp
SyncMessage ==
    [sender : {"ai", "bot"}, content : {"b"}, model : {NULL}, responseInfo : {NULL},
     timestamp : ClientSeconds]
SyncInputs == UNION {[1..n -> SyncMessage] : n \in 0..MaxSync}

\* Transcripts for saveChat run alone: a message without model and response
\* info at a time on the second, one with both at a time on the half second,
\* and one whose sender the column refuses.
TranscriptMessages ==
    {[sender |-> "user", content |-> "b", model |-> NULL, responseInfo |-> NULL,
      timestamp |-> 0],
     [sender |-> "bot", content |-> "b", model |-> NULL, responseInfo |-> NULL,
      timestamp |-> 0],
     [sender |-> "ai", content |-> "b", model |-> "m1", responseInfo |-> "r1",
      timestamp |-> 1]}
TranscriptInputs == UNION {[1..n -> TranscriptMessages] : n \in 0..MaxTranscript}

\* INSERT INTO chats ... ON DUPLICATE KEY UPDATE name = VALUES(name),
\* updated_at = VALUES(updated_at)
UpsertTakingOver(u, c, name, model, updatedAt) ==
    (c :> [user_id |-> u, name |-> name, model |-> model, updated_at |-> updatedAt])
        @@ chats
Upsert(u, c, name, model, updatedAt) ==
    IF c \in DOMAIN chats
    THEN [chats EXCEPT ![c].name = name, ![c].updated_at = updatedAt]
    ELSE chats @@ (c :> [user_id |-> u, name |-> name, model |-> model,
                         updated_at |-> updatedAt])

PhpSaveChat(p, u, c, name, model, updatedAt, msgs) ==
    /\ Observed
    /\ Free(p)
    /\ chats' = Upsert(u, c, name, model, ToTimestamp(updatedAt))
    /\ req' = [req EXCEPT ![p] = [Idle EXCEPT !.op = "saveChat", !.pc = "delete",
                                     !.user = u, !.chat = c, !.todo = msgs,
                                     !.changed = (chats' # chats)]]
    /\ last' = Ev("saveChat", "upsert", u, c, 0, "")
    /\ UNCHANGED <<authVars, messages, nextMsgId, now>>

\* DELETE FROM messages WHERE chat_id = ?
ClearNone(c) == messages
ClearMessages(c) == {m \in messages : m.chat_id # c}

PhpSaveChatDelete(p) ==
    /\ Observed
    /\ req[p].op = "saveChat" /\ req[p].pc = "delete"
    /\ messages' = ClearMessages(req[p].chat)
    /\ IF req[p].todo = <<>>
       THEN /\ req' = [req EXCEPT ![p] = Idle]
            /\ last' = Ev("saveChat", "delete", req[p].user, req[p].chat, 200, "")
       ELSE /\ req' = [req EXCEPT ![p].pc = "insert",
                                   ![p].changed = (@ \/ messages' # messages)]
            /\ last' = Ev("saveChat", "delete", req[p].user, req[p].chat, 0, "")
    /\ UNCHANGED <<authVars, chats, nextMsgId, now>>

\* foreach ($chatData['messages'] as $message): one INSERT; a PDOException is
\* not caught and ends the request
PhpSaveChatInsert(p) ==
    /\ Observed
    /\ req[p].op = "saveChat" /\ req[p].pc = "insert"
    /\ LET m == Head(req[p].todo)
       IN IF Insertable(req[p].chat, m.sender)
          THEN /\ nextMsgId <= MaxMsgId
               /\ messages' = messages \cup
                     {MessageRow(req[p].chat, m.sender, m.content, m.model,
                                 m.responseInfo, ToTimestamp(m.timestamp))}
               /\ nextMsgId' = nextMsgId + 1
               /\ IF Len(req[p].todo) > 1
                  THEN /\ req' = [req EXCEPT ![p].todo = Tail(@),
                                              ![p].done = Append(@, m),
                                              ![p].changed = TRUE]
                       /\ last' = Ev("saveChat", "insert", req[p].user, req[p].chat, 0, "")
                  ELSE /\ req' = [req EXCEPT ![p] = Idle]
                       /\ last' = Ev("saveChat", "insert", req[p].user, req[p].chat, 200, "")
          ELSE /\ req' = [req EXCEPT ![p] = Idle]
               /\ last' = Ev("saveChat", "insert", req[p].user, req[p].chat, 500,
                             "PDOException")
               /\ UNCHANGED <<messages, nextMsgId>>
    /\ UNCHANGED <<authVars, chats, now>>

(***************************************************************************)
(* PHP: ChatController::deleteChat                                         *)
(***************************************************************************)
Denied == "Chat not found or access denied"

PhpDeleteChat(p, u, c) ==
    /\ Observed
    /\ Free(p)
    /\ IF Owned(c, u)
       THEN /\ req' = [req EXCEPT ![p] = [Idle EXCEPT !.op = "deleteChat",
                                             !.pc = "delete", !.user = u, !.chat = c]]
            /\ last' = Ev("deleteChat", "select", u, c, 0, "")
       ELSE /\ last' = Ev("deleteChat", "select", u, c, 200, Denied)
            /\ UNCHANGED req
    /\ UNCHANGED <<authVars, storeVars, now>>

\* DELETE FROM chats WHERE id = ?
PhpDeleteChatDelete(p) ==
    /\ Observed
    /\ req[p].op = "deleteChat" /\ req[p].pc = "delete"
    /\ DeleteChatRow(req[p].chat)
    /\ req' = [req EXCEPT ![p] = Idle]
    /\ last' = Ev("deleteChat", "delete", req[p].user, req[p].chat, 200, "")
    /\ UNCHANGED <<authVars, nextMsgId, now>>

(***************************************************************************)
(* Credentials.  The users relation starts as init.sql (Node) or           *)
(* Database::initTables (PHP) leaves it; the two differ in the theme       *)
(* column: theme_preference ENUM('light','dark') against theme VARCHAR(10).*)
(***************************************************************************)
UsernameInputs == {"", "al", "demo", "bob", " bob "}
EmailInputs == {"", "bad", "demo@example.com", "bob@example.com"}
PasswordInputs == {"", "abc", "secret1"}
ThemeInputs == {"", "light", "dark", "purple", "ultraviolet"}
MinUsername == 3
MinPassword == 6
ThemeWidth == 10

InitAuth ==
    /\ users = {DemoUser}
    /\ nextUserId = 2
    /\ schema \in {"node", "php"}
    /\ chats = <<>>
    /\ messages = {}
    /\ nextMsgId = 1
    /\ now = 0
    /\ req = [p \in Procs |-> Idle]
    /\ last = Quiet

\* trim(): the inputs that carry surrounding blanks, and what is left of them
Trim(s) == IF s = " bob " THEN "bob" ELSE s

\* filter_var($email, FILTER_VALIDATE_EMAIL), on the inputs
ValidEmail(e) == e \in {"demo@example.com", "bob@example.com"}

\* SELECT id FROM users WHERE username = ? OR email = ?
UserExistsByName(username, email) == \E r \in users : r.username = username
UserExists(username, email) ==
    \E r \in users : r.username = username \/ r.email = email

\* username ... UNIQUE, email ... UNIQUE
UniqueViolation(username, email) ==
    \E r \in users : r.username = username \/ r.email = email

RegEv(op, stmt, username, email, status, error) ==
    [Ev(op, stmt, 0, "", status, error)
        EXCEPT !.username = username, !.email = email]

(***************************************************************************)
(* Node: POST /api/register                                                *)
(***************************************************************************)
NodeRegister(p, username, email, password) ==
    /\ Observed
    /\ Free(p)
    /\ IF username = "" \/ email = "" \/ password = ""
       THEN /\ last' = RegEv("register", "", username, email, 400,
                             "Username, email, and password are required")
            /\ UNCHANGED req
       ELSE IF Len(password) < MinPassword
       THEN /\ last' = RegEv("register", "", username, email, 400,
                             "Password must be at least 6 characters long")
            /\ UNCHANGED req
       ELSE IF UserExists(username, email)
       THEN /\ last' = RegEv("register", "select", username, email, 409,
                             "Username or email already exists")
            /\ UNCHANGED req
       ELSE /\ req' = [req EXCEPT ![p] = [Idle EXCEPT !.op = "register", !.pc = "insert",
                                             !.username = username, !.email = email]]
            /\ last' = RegEv("register", "select", username, email, 0, "")
    /\ UNCHANGED <<authVars, storeVars, now>>

NodeRegisterInsert(p) ==
    /\ Observed
    /\ req[p].op = "register" /\ req[p].pc = "insert"
    /\ IF UniqueViolation(req[p].username, req[p].email)
       THEN \* ER_DUP_ENTRY, caught by the handler's catch
            /\ last' = RegEv("register", "insert", req[p].username, req[p].email, 500, Internal)
            /\ UNCHANGED <<users, nextUserId>>
       ELSE /\ nextUserId <= MaxUserId
            /\ users' = users \cup
                  {UserRow(nextUserId, req[p].username, req[p].email, "light")}
            /\ nextUserId' = nextUserId + 1
            /\ last' = [RegEv("register", "insert", req[p].username, req[p].email, 201, "")
                           EXCEPT !.user = nextUserId, !.theme = "light"]
    /\ req' = [req EXCEPT ![p] = Idle]
    /\ UNCHANGED <<schema, storeVars, now>>

(***************************************************************************)
(* PHP: AuthController::register                                           *)
(***************************************************************************)
PhpRegister(p, rawUsername, rawEmail, password) ==
    LET username == Trim(rawUsername)
        email == Trim(rawEmail)
    IN
    /\ Observed
    /\ Free(p)
    /\ IF username = "" \/ email = "" \/ password = ""
       THEN /\ last' = RegEv("phpRegister", "", username, email, 200, "All fields are required")
            /\ UNCHANGED req
       ELSE IF Len(username) < MinUsername
       THEN /\ last' = RegEv("phpRegister", "", username, email, 200,
                             "Username must be at least 3 characters")
            /\ UNCHANGED req
       ELSE IF ~ValidEmail(email)
       THEN /\ last' = RegEv("phpRegister", "", username, email, 200, "Invalid email format")
            /\ UNCHANGED req
       ELSE IF Len(password) < MinPassword
       THEN /\ last' = RegEv("phpRegister", "", username, email, 200,
                             "Password must be at least 6 characters")
            /\ UNCHANGED req
       ELSE IF UserExists(username, email)
       THEN /\ last' = RegEv("phpRegister", "select", username, email, 200,
                             "Username or email already exists")
            /\ UNCHANGED req
       ELSE /\ req' = [req EXCEPT ![p] = [Idle EXCEPT !.op = "phpRegister",
                                             !.pc = "insert", !.username = username,
                                             !.email = email]]
            /\ last' = RegEv("phpRegister", "select", username, email, 0, "")
    /\ UNCHANGED <<authVars, storeVars, now>>

PhpRegisterInsert(p) ==
    /\ Observed
    /\ req[p].op = "phpRegister" /\ req[p].pc = "insert"
    /\ IF UniqueViolation(req[p].username, req[p].email)
       THEN \* catch (PDOException $e)
            /\ last' = RegEv("phpRegister", "insert", req[p].username, req[p].email, 200,
                             "Registration failed")
            /\ UNCHANGED <<users, nextUserId>>
       ELSE /\ nextUserId <= MaxUserId
            /\ users' = users \cup
                  {UserRow(nextUserId, req[p].username, req[p].email, "light")}
            /\ nextUserId' = nextUserId + 1
            /\ last' = [RegEv("phpRegister", "insert", req[p].username, req[p].email, 200, "")
                           EXCEPT !.user = nextUserId, !.theme = "light"]
    /\ req' = [req EXCEPT ![p] = Idle]
    /\ UNCHANGED <<schema, storeVars, now>>

(***************************************************************************)
(* Node: PATCH /api/profile/theme                                          *)
(***************************************************************************)
SetTheme(u, theme) ==
    {IF r.id = u THEN [r EXCEPT !.theme = theme] ELSE r : r \in users}

ThemeEv(u, theme, status, error) ==
    [Ev("theme", "update", u, "", status, error) EXCEPT !.theme = theme]

ValidThemeAny(theme) == theme # ""
ValidTheme(theme) == theme # "" /\ theme \in ThemeEnum

NodeUpdateTheme(u, theme) ==
    /\ Observed
    /\ \E r \in users : r.id = u
    /\ IF ~ValidTheme(theme)
       THEN /\ last' = ThemeEv(u, theme, 400, "Valid theme (light/dark) is required")
            /\ UNCHANGED users
       ELSE IF schema # "node" \/ theme \notin ThemeEnum
       THEN \* no column theme_preference, or a value outside the ENUM: caught
            /\ last' = ThemeEv(u, theme, 500, Internal)
            /\ UNCHANGED users
       ELSE /\ users' = SetTheme(u, theme)
            /\ last' = ThemeEv(u, theme, 200, "")
    /\ UNCHANGED <<nextUserId, schema, storeVars, now, req>>

(***************************************************************************)
(* PHP: AuthController::updateTheme                                        *)
(***************************************************************************)
PhpUpdateTheme(u, theme) ==
    /\ Observed
    /\ IF schema # "php" \/ Len(theme) > ThemeWidth
       THEN \* no column theme, or data too long for VARCHAR(10): the PDOException
            \* is not caught
            /\ last' = [ThemeEv(u, theme, 500, "PDOException") EXCEPT !.op = "phpTheme"]
            /\ UNCHANGED users
       ELSE /\ users' = SetTheme(u, theme)
            /\ last' = [ThemeEv(u, theme, 200, "") EXCEPT !.op = "phpTheme"]
    /\ UNCHANGED <<nextUserId, schema, storeVars, now, req>>

AuthStep ==
    \/ \E p \in Procs, n \in UsernameInputs \ {" bob "}, e \in EmailInputs,
          w \in PasswordInputs : NodeRegister(p, n, e, w)
    \/ \E p \in Procs : NodeRegisterInsert(p)
    \/ \E p \in Procs, n \in UsernameInputs, e \in EmailInputs,
          w \in PasswordInputs : PhpRegister(p, n, e, w)
    \/ \E p \in Procs : PhpRegisterInsert(p)
    \/ \E u \in 1..MaxUserId, t \in ThemeInputs : NodeUpdateTheme(u, t)
    \/ \E u \in 1..MaxUserId, t \in ThemeInputs : PhpUpdateTheme(u, t)

\* The Node routes, with the <<sender, content>> of an append drawn from A.
NodeRoutes(A) ==
    \/ \E u \in UserIds : NodeList(u)
    \/ \E p \in Procs, u \in UserIds, c \in ChatIds : NodeGetChat(p, u, c)
    \/ \E p \in Procs : NodeGetMessages(p)
    \/ \E u \in UserIds, c \in ChatIds, i \in CreateInputs : NodeCreate(u, c, i[1], i[2])
    \/ \E u \in UserIds, c \in ChatIds, n \in NameInputs : NodeRename(u, c, n)
    \/ \E u \in UserIds, c \in ChatIds : NodeDelete(u, c)
    \/ \E p \in Procs, u \in UserIds, c \in ChatIds, i \in A :
          NodeAppend(p, u, c, i[1], i[2])
    \/ \E p \in Procs : NodeAppendInsert(p)
    \/ \E p \in Procs : NodeAppendUpdate(p)

NodeStep == NodeRoutes(AppendInputs)

PhpStep ==
    \/ \E p \in Procs, u \in UserIds : PhpGetUserChats(p, u)
    \/ \E p \in Procs : PhpGetUserChatsMessages(p)
    \/ \E p \in Procs, u \in UserIds, c \in ChatIds, n \in NameInputs \ {""},
          m \in ModelInputs \ {""}, t \in ClientSeconds, msgs \in SyncInputs :
          PhpSaveChat(p, u, c, n, m, t, msgs)
    \/ \E p \in Procs : PhpSaveChatDelete(p)
    \/ \E p \in Procs : PhpSaveChatInsert(p)
    \/ \E p \in Procs, u \in UserIds, c \in ChatIds : PhpDeleteChat(p, u, c)
    \/ \E p \in Procs : PhpDeleteChatDelete(p)

PhpDeleteStep ==
    \/ \E p \in Procs, u \in UserIds, c \in ChatIds : PhpDeleteChat(p, u, c)
    \/ \E p \in Procs : PhpDeleteChatDelete(p)

\* No request is in the middle of its statements.
Serial == \A p \in Procs : req[p].op = "idle"

NextNode == Sent \/ Tick \/ NodeStep
NextPhp == Sent \/ Tick \/ PhpStep
NextGuard == Sent \/ Tick \/ NodeRoutes(AppendInputs \ {<<"user", "b">>}) \/ PhpDeleteStep
Next == Sent \/ Tick \/ NodeStep \/ PhpStep
NextAuth == Sent \/ AuthStep

\* The Node routes with one request at a time: a request starts only when none
\* is in the middle of its statements.
NextNodeSerial ==
    \/ Sent
    \/ Tick
    \/ \E u \in UserIds : Serial /\ NodeList(u)
    \/ \E p \in Procs, u \in UserIds, c \in ChatIds : Serial /\ NodeGetChat(p, u, c)
    \/ \E p \in Procs : NodeGetMessages(p)
    \/ \E u \in UserIds, c \in ChatIds, i \in CreateInputs :
          Serial /\ NodeCreate(u, c, i[1], i[2])
    \/ \E u \in UserIds, c \in ChatIds, n \in NameInputs : Serial /\ NodeRename(u, c, n)
    \/ \E u \in UserIds, c \in ChatIds : Serial /\ NodeDelete(u, c)
    \/ \E p \in Procs, u \in UserIds, c \in ChatIds, i \in AppendInputs :
          Serial /\ NodeAppend(p, u, c, i[1], i[2])
    \/ \E p \in Procs : NodeAppendInsert(p)
    \/ \E p \in Procs : NodeAppendUpdate(p)

\* The requests that write to the chat store, Node's and PHP's saveChat, with one
\* valid input each.
WriteSyncInputs ==
    {<<>>, <<[sender |-> "ai", content |-> "b", model |-> NULL, responseInfo |-> NULL,
              timestamp |-> 0]>>}

NextWrites ==
    \/ Sent
    \/ Tick
    \/ \E u \in UserIds, c \in ChatIds : NodeCreate(u, c, "n1", "m1")
    \/ \E u \in UserIds, c \in ChatIds : NodeRename(u, c, "n2")
    \/ \E u \in UserIds, c \in ChatIds : NodeDelete(u, c)
    \/ \E p \in Procs, u \in UserIds, c \in ChatIds : NodeAppend(p, u, c, "user", "a")
    \/ \E p \in Procs : NodeAppendInsert(p)
    \/ \E p \in Procs : NodeAppendUpdate(p)
    \/ \E p \in Procs, u \in UserIds, c \in ChatIds, t \in ClientSeconds,
          msgs \in WriteSyncInputs : PhpSaveChat(p, u, c, "n1", "m1", t, msgs)
    \/ \E p \in Procs : PhpSaveChatDelete(p)
    \/ \E p \in Procs : PhpSaveChatInsert(p)

\* Node's create and append beside PHP's saveChat: no request deletes a chat.
NextRace ==
    \/ Sent
    \/ Tick
    \/ \E u \in UserIds, c \in ChatIds : NodeCreate(u, c, "n1", "m1")
    \/ \E p \in Procs, u \in UserIds, c \in ChatIds : NodeAppend(p, u, c, "user", "a")
    \/ \E p \in Procs : NodeAppendInsert(p)
    \/ \E p \in Procs : NodeAppendUpdate(p)
    \/ \E p \in Procs, u \in UserIds, c \in ChatIds, t \in ClientSeconds,
          msgs \in WriteSyncInputs : PhpSaveChat(p, u, c, "n2", "m1", t, msgs)
    \/ \E p \in Procs : PhpSaveChatDelete(p)
    \/ \E p \in Procs : PhpSaveChatInsert(p)

\* The PHP chat controller, one request at a time.
NextPhpSerial ==
    \/ Sent
    \/ Tick
    \/ \E p \in Procs, u \in UserIds : Serial /\ PhpGetUserChats(p, u)
    \/ \E p \in Procs : PhpGetUserChatsMessages(p)
    \/ \E p \in Procs, u \in UserIds, c \in ChatIds, t \in {0, 1},
          msgs \in TranscriptInputs : Serial /\ PhpSaveChat(p, u, c, "n1", "m1", t, msgs)
    \/ \E p \in Procs : PhpSaveChatDelete(p)
    \/ \E p \in Procs : PhpSaveChatInsert(p)
    \/ \E p \in Procs, u \in UserIds, c \in ChatIds : Serial /\ PhpDeleteChat(p, u, c)
    \/ \E p \in Procs : PhpDeleteChatDelete(p)

(***************************************************************************)
(* Specifications: the Node routes; the Node routes one request at a time; *)
(* the PHP chat controller; the operations behind the ownership guard      *)
(* (the Node routes and PHP's deleteChat, every stored message with the    *)
(* same content, which nothing checked under it reads); both back ends     *)
(* together; the credential store.                                         *)
(***************************************************************************)
SpecNode == Init /\ [][NextNode]_vars
SpecNodeSerial == Init /\ [][NextNodeSerial]_vars
SpecPhp == Init /\ [][NextPhp]_vars
SpecGuard == Init /\ [][NextGuard]_vars
Spec == Init /\ [][Next]_vars
SpecAuth == InitAuth /\ [][NextAuth]_vars
SpecWrites == Init /\ [][NextWrites]_vars
SpecPhpSerial == Init /\ [][NextPhpSerial]_vars
SpecRace == Init /\ [][NextRace]_vars

(***************************************************************************)
(* C1.  No operation issued by a user on a chat that exists and is owned   *)
(* by another user changes that chat: rename, delete and append (Node),    *)
(* saveChat and deleteChat (PHP) answer not-found, and the chat's row and  *)
(* its messages stay as they were.  Stated for the statement that opens    *)
(* the operation (after input validation), which must also be its last.    *)
(***************************************************************************)
FirstStmt ==
    [rename |-> "update", delete |-> "delete", append |-> "select", get |-> "chat",
     saveChat |-> "upsert", deleteChat |-> "select"]

Opens(e, ops) == e.op \in ops /\ e.stmt = FirstStmt[e.op]

Foreign(c, u) == c \in DOMAIN chats /\ chats[c].user_id # u

C1_ForeignChatUntouched ==
    [][(/\ Opens(last', {"rename", "delete", "append", "saveChat", "deleteChat"})
        /\ Foreign(last'.chat, last'.user))
       => (/\ last'.status # 0
           /\ last'.error \in {NotFound, Denied}
           /\ last'.chat \in DOMAIN chats'
           /\ chats'[last'.chat] = chats[last'.chat]
           /\ messages' = messages)]_vars

(***************************************************************************)
(* C2.  No read returns to a user data of a chat owned by another user:    *)
(* every chat of a list (GET /api/chats, getUserChats) is owned by the     *)
(* reader, and the chat and the messages GET /api/chats/:chatId returns    *)
(* belong to a chat the reader owns.                                       *)
(***************************************************************************)
OwnMessages(msgs, u) ==
    \A i \in 1..Len(msgs) :
        msgs[i].chat_id \in DOMAIN chats /\ chats[msgs[i].chat_id].user_id = u

C2_ReadsOnlyOwnData ==
    /\ (last.op = "list" /\ last.status = 200) =>
          \A i \in 1..Len(last.chats) : chats[last.chats[i].id].user_id = last.user
    /\ (last.op = "get" /\ last.status = 200) =>
          /\ last.row.user_id = last.user
          /\ OwnMessages(last.messages, last.user)
    /\ (last.op = "getUserChats" /\ last.status = 200) =>
          \A i \in 1..Len(last.chats) :
              /\ last.chats[i].user_id = last.user
              /\ OwnMessages(last.chats[i].messages, last.user)

(***************************************************************************)
(* C3.  For getWithMessages, rename, delete and append (and PHP's          *)
(* deleteChat), the answer given when the chat exists but is owned by      *)
(* another user is the answer given when no chat has that id: the same     *)
(* status and the same error, and nothing else in the response.            *)
(***************************************************************************)
GuardedOps == {"get", "rename", "delete", "append", "deleteChat"}

\* The response to a request on a chat id that no chat has.
AbsentResponse(e) ==
    [Quiet EXCEPT !.op = e.op, !.stmt = e.stmt, !.user = e.user, !.chat = e.chat,
                  !.sender = e.sender, !.content = e.content,
                  !.status = IF e.op = "deleteChat" THEN 200 ELSE 404,
                  !.error = IF e.op = "deleteChat" THEN Denied ELSE NotFound]

C3_ForeignAnsweredAsAbsent ==
    [][Opens(last', GuardedOps) =>
          /\ last'.chat \notin DOMAIN chats => last' = AbsentResponse(last')
          /\ Foreign(last'.chat, last'.user) => last' = AbsentResponse(last')]_vars

C3_Witness ==
    /\ Opens(last, {"get"})
    /\ last.status = 404
    /\ Foreign(last.chat, last.user)
    /\ MessagesOf(last.chat) # {}

(***************************************************************************)
(* C4.  A delete that succeeds leaves no chat with that id and no message  *)
(* with that chat_id; while no chat has the id, no message refers to it    *)
(* and getWithMessages answers not-found.                                  *)
(***************************************************************************)
C4_DeleteRemovesMessages ==
    [][/\ (last'.op \in {"delete", "deleteChat"} /\ last'.stmt = "delete"
             /\ last'.status = 200 /\ last'.error = "")
          => (last'.chat \notin DOMAIN chats' /\ MessagesIn(messages', last'.chat) = {})
       /\ \A c \in ChatIds : c \notin DOMAIN chats' => MessagesIn(messages', c) = {}
       /\ (Opens(last', {"get"}) /\ last'.chat \notin DOMAIN chats)
          => (last'.status = 404 /\ last'.error = NotFound)]_vars

\* The owner's delete has just succeeded while an append that had stored its
\* message in the chat is still to bump the chat's timestamp.
C4_Witness ==
    /\ last.op = "delete" /\ last.status = 200
    /\ last.chat \notin DOMAIN chats
    /\ \E p \in Procs : req[p].op = "append" /\ req[p].pc = "update"
                          /\ req[p].chat = last.chat
    /\ nextMsgId = 2
    /\ messages = {}

(***************************************************************************)
(* C5.  When an append succeeds with no other request running beside it,  *)
(* a listForUser that follows shows the chat with last_message equal to    *)
(* the content just appended and updated_at not earlier than before.       *)
(***************************************************************************)
C5_ListShowsAppended ==
    [][\A p \in Procs, u \in UserIds, c \in ChatIds, x \in ContentInputs, t \in 0..MaxTime :
          (/\ req[p].op = "append" /\ req[p].user = u /\ req[p].chat = c
           /\ req[p].content = x /\ c \in DOMAIN chats /\ chats[c].updated_at = t
           /\ last'.op = "append" /\ last'.status = 201 /\ req'[p].op = "idle")
          => \A s \in ListForUser(u)' :
                \E i \in 1..Len(s) :
                    /\ s[i].id = c
                    /\ s[i].last_message = x
                    /\ s[i].updated_at >= t]_vars

(***************************************************************************)
(* C6.  getWithMessages (and getUserChats) returns a chat's messages in    *)
(* ascending timestamp order, messages of equal timestamp in the order of  *)
(* their ids, so in the order sequential requests appended them.           *)
(***************************************************************************)
InAppendOrder(msgs) ==
    \A i, j \in 1..Len(msgs) :
        i < j => /\ msgs[i].timestamp <= msgs[j].timestamp
                 /\ msgs[i].timestamp = msgs[j].timestamp => msgs[i].id < msgs[j].id

C6_MessagesInAppendOrder ==
    /\ (last.op = "get" /\ last.status = 200) => InAppendOrder(last.messages)
    /\ (last.op = "getUserChats" /\ last.status = 200) =>
          \A i \in 1..Len(last.chats) : InAppendOrder(last.chats[i].messages)

(***************************************************************************)
(* C7.  create (and saveChat) with a chat id that already exists fails     *)
(* with ConflictError (409) and leaves the existing chat and its messages  *)
(* unchanged.                                                              *)
(***************************************************************************)
C7_CreateExistingConflicts ==
    [][((\/ last'.op = "create" /\ last'.stmt = "insert"
         \/ last'.op = "saveChat" /\ last'.stmt = "upsert")
        /\ last'.chat \in DOMAIN chats)
       => (/\ last'.status = 409
           /\ last'.chat \in DOMAIN chats'
           /\ chats'[last'.chat] = chats[last'.chat]
           /\ messages' = messages)]_vars

(***************************************************************************)
(* C8.  append on a chat the caller owns with a sender outside {user, ai}  *)
(* or with empty content is answered 400, stores no message and leaves the *)
(* chat's updated_at alone.                                                *)
(***************************************************************************)
C8_BadAppendRejected ==
    [][(/\ last'.op = "append"
        /\ Owned(last'.chat, last'.user)
        /\ (last'.sender \notin SenderEnum \/ last'.content = ""))
       => (/\ last'.status # 0 => last'.status = 400
           /\ messages' = messages
           /\ chats' = chats)]_vars

(***************************************************************************)
(* C9.  Every user's theme is light or dark in every state, and an         *)
(* updateTheme (Node or PHP) with any other value is answered 400 and      *)
(* leaves the stored theme unchanged.                                      *)
(***************************************************************************)
C9_ThemeAlwaysValid ==
    [][/\ \A r \in users' : r.theme \in ThemeEnum
       /\ (last'.op \in {"theme", "phpTheme"} /\ last'.theme \notin ThemeEnum)
          => (last'.status = 400 /\ users' = users)]_vars

(***************************************************************************)
(* C10.  Of two register requests that share a username or an email, run   *)
(* one after the other or overlapping, at most one creates a user and the  *)
(* other is answered with the conflict (409, "Username or email already    *)
(* exists").                                                               *)
(***************************************************************************)
UsernamesAndEmailsUnique ==
    \A r1, r2 \in users :
        (r1.username = r2.username \/ r1.email = r2.email) => r1 = r2

Conflict(e) ==
    /\ e.error = "Username or email already exists"
    /\ e.status = IF e.op = "register" THEN 409 ELSE 200

C10_SecondRegisterConflicts ==
    [][/\ UsernamesAndEmailsUnique'
       /\ (/\ last'.op \in {"register", "phpRegister"}
           /\ last'.stmt \in {"select", "insert"}
           /\ UserExists(last'.username, last'.email))
          => (Conflict(last') /\ users' = users)]_vars

(***************************************************************************)
(* C11.  While a chat exists its owner does not change: no create,         *)
(* saveChat, rename or append step, by any user, changes the user_id of a  *)
(* chat that exists before and after the step.                             *)
(***************************************************************************)
C11_OwnerNeverChanges ==
    [][\A c \in DOMAIN chats \cap DOMAIN chats' :
          chats'[c].user_id = chats[c].user_id]_vars

\* saveChat by a user who does not own the chat has just run its upsert, with a
\* name the chat did not have.
C11_Witness ==
    /\ last.op = "saveChat" /\ last.stmt = "upsert"
    /\ last.chat \in DOMAIN chats
    /\ chats[last.chat].user_id # last.user
    /\ chats[last.chat].name = "n1"
    /\ \E p \in Procs : req[p].op = "append" /\ req[p].chat = last.chat

(***************************************************************************)
(* C12.  In every state in which no request is in flight, each chat's      *)
(* updated_at is at least as late as the timestamp of every message stored *)
(* for that chat.                                                          *)
(***************************************************************************)
C12_UpdatedAtCoversMessages ==
    Serial => \A c \in DOMAIN chats :
                 \A m \in MessagesOf(c) : chats[c].updated_at >= m.timestamp

(***************************************************************************)
(* C13.  An operation that reports a failure leaves the store as it was    *)
(* before the operation: the statement that fails changes nothing and no   *)
(* earlier statement of the same request has changed the store.  (With one *)
(* request at a time, a change made by saveChat's upsert, delete or an     *)
(* insert is still there when a later insert fails: the chat row is not    *)
(* written again and message ids are not reused.)                          *)
(***************************************************************************)
Failure(e) == e.status >= 400 \/ (e.status # 0 /\ e.error # "")

C13_FailureLeavesStoreUnchanged ==
    [][Failure(last') =>
          /\ chats' = chats
          /\ messages' = messages
          /\ \A p \in Procs : req'[p] # req[p] => ~req[p].changed]_vars

(***************************************************************************)
(* C14.  When saveChat on a chat the caller owns completes, run alone, the *)
(* messages stored for the chat are exactly the supplied ones, in number   *)
(* and, taken in the order of their ids, in sender, content, model,        *)
(* response info and timestamp; none of the messages stored before is left.*)
(***************************************************************************)
SortedById(S) ==
    CHOOSE s \in [1..Cardinality(S) -> S] :
        \A i, j \in 1..Cardinality(S) : i < j => s[i].id < s[j].id

\* Request p answers success with this step; the transcript it was given.
Completes(p) ==
    /\ req[p].op = "saveChat" /\ req'[p].op = "idle"
    /\ last'.status = 200
    /\ req[p].chat \in DOMAIN chats /\ chats[req[p].chat].user_id = req[p].user

Transcript(p) == req[p].done \o req[p].todo

SameContent(row, m) ==
    /\ row.sender = m.sender
    /\ row.content = m.content
    /\ row.model = m.model
    /\ row.response_info = m.responseInfo

C14_SaveChatStoresSupplied ==
    [][\A p \in Procs : Completes(p) =>
          LET rows == MessagesIn(messages', req[p].chat)
          IN /\ Cardinality(rows) = Len(Transcript(p))
             /\ \A i \in 1..Cardinality(rows) :
                   /\ SameContent(SortedById(rows)[i], Transcript(p)[i])
                   /\ 2 * SortedById(rows)[i].timestamp = Transcript(p)[i].timestamp]_vars

\* C14, amended: the same, each timestamp being the supplied one rounded to the
\* whole second.
C14_SaveChatStoresSuppliedToTheSecond ==
    [][\A p \in Procs : Completes(p) =>
          LET rows == MessagesIn(messages', req[p].chat)
          IN /\ Cardinality(rows) = Len(Transcript(p))
             /\ \A i \in 1..Cardinality(rows) :
                   /\ SameContent(SortedById(rows)[i], Transcript(p)[i])
                   /\ 2 * SortedById(rows)[i].timestamp
                         \in {Transcript(p)[i].timestamp, Transcript(p)[i].timestamp + 1}]_vars

\* saveChat has just completed for the chat's owner; the chat held a message
\* before, and holds only the supplied one, with its model, now.
C14_Witness ==
    /\ last.op = "saveChat" /\ last.status = 200
    /\ Serial
    /\ last.chat \in DOMAIN chats /\ chats[last.chat].user_id = last.user
    /\ Cardinality(MessagesOf(last.chat)) = 1
    /\ \E m \in MessagesOf(last.chat) : m.id = 2 /\ m.model = "m1" /\ m.timestamp = 1

(***************************************************************************)
(* C15.  A read never sees an append half done: no listForUser shows a     *)
(* chat, and no getWithMessages returns a chat row, whose updated_at is    *)
(* earlier than the timestamp of a message stored for (returned with) the  *)
(* chat, as it is between append's insert and its bump of updated_at.      *)
(***************************************************************************)
C15_ReadersSeeAppendWhole ==
    [][/\ (last'.op = "list" /\ last'.status = 200) =>
             \A i \in 1..Len(last'.chats) :
                \A m \in MessagesIn(messages', last'.chats[i].id) :
                   m.timestamp <= last'.chats[i].updated_at
       /\ (last'.op = "get" /\ last'.status = 200) =>
             \A i \in 1..Len(last'.messages) :
                last'.messages[i].timestamp <= last'.row.updated_at]_vars

(***************************************************************************)
(* C16.  A saveChat that overlaps an append on the same chat can lose the  *)
(* appended message while both requests succeed: saveChat's delete removes *)
(* every message stored for the chat, the one an unfinished append has     *)
(* just inserted included, and an append that has inserted its message     *)
(* answers success whether or not the message is still stored.  The        *)
(* witness is the state the claim says is reachable.                       *)
(***************************************************************************)
C16_SaveChatDropsConcurrentAppend ==
    [][/\ (last'.op = "saveChat" /\ last'.stmt = "delete") =>
             MessagesIn(messages', last'.chat) = {}
       /\ (last'.op = "append" /\ last'.stmt = "update") => last'.status = 201]_vars

\* Both requests have finished, the append last and with success; the chat holds
\* the message saveChat supplied and not the appended one.
C16_Witness ==
    /\ last.op = "append" /\ last.status = 201
    /\ Serial
    /\ last.chat \in DOMAIN chats
    /\ chats[last.chat].name = "n2"
    /\ \E m \in MessagesOf(last.chat) : m.content = "b"
    /\ \A m \in MessagesOf(last.chat) : m.content # last.content

(***************************************************************************)
(* C17.  In every reachable state, whatever the interleaving of create,    *)
(* append, saveChat and delete requests, every stored message's chat_id is *)
(* the id of a chat that exists.                                           *)
(***************************************************************************)
C17_MessagesReferenceChats == \A m \in messages : m.chat_id \in DOMAIN chats

\* A delete has landed between an append's ownership check and its insert: the
\* insert has just been refused.
C17_Witness ==
    /\ last.op = "append" /\ last.stmt = "insert" /\ last.status = 500
    /\ last.chat \notin DOMAIN chats
    /\ last.sender \in SenderEnum
====
